---- MODULE Spec2Model ----
(***************************************************************************)
(* HubSpot -> CSV -> ClickHouse loader (src/main.py).                      *)
(*                                                                         *)
(* One pipeline (process_object) per configured object type runs on a      *)
(* ThreadPoolExecutor worker: it creates a requests session and a          *)
(* ClickHouse client, fetches the property catalog, fetches the records    *)
(* chunk by chunk and page by page, merges them by id, writes a CSV and    *)
(* loads the destination table.  main() submits every object, collects     *)
(* the futures and prints the summary.                                     *)
(***************************************************************************)
EXTENDS Integers, Sequences, FiniteSets, TLC

(***************************************************************************)
(* Bounds of the model.                                                    *)
(***************************************************************************)
\* number of entries of OBJECTS that are modelled
NumObjects == 2
\* longest property catalog; the properties are named 1..MaxProps
MaxProps == 2
\* largest value tried for PROPERTIES_CHUNK_SIZE
MaxChunkSize == 2
\* record identifiers the API may return: 1..NumIds
NumIds == 2
\* property values the API may return: 1..NumValues
NumValues == 2
\* paging cursors the API may return: 1..NumCursors
NumCursors == 2
\* most records in one page
MaxPageRecs == 1
\* longest list and largest chunk size chunk_list is tried on alone
MaxList == 10
\* page_count is only printed; it is counted up to MaxPages and held there
MaxPages == 2
\* most records in one page when some of them lack an identifier
MaxMixed == 2
\* most records in the page whose rows are flattened and typed
MaxRows == 2
\* number of entries of OBJECTS when the executor is modelled alone
NumPoolObjects == 6

(***************************************************************************)
(* Program constants.                                                      *)
(***************************************************************************)
MAX_WORKERS == 4
SESSION_TOTAL_RETRIES == 5
PAGE_LIMIT == 100

\* Python's None: a missing dict key, a missing cursor, no response at all.
\* Identifiers, cursors, values and HTTP statuses are all positive.
None == 0

Objs == 1..NumObjects
Ids == 1..NumIds
Values == 1..NumValues
Cursors == 1..NumCursors
PropNames == 1..MaxProps

\* the catalog of an object with n properties
PropList(n) == [i \in 1..n |-> i]

(***************************************************************************)
(* Python dicts (insertion order of keys is not modelled for the           *)
(* properties of a record) and the `or` operator.                          *)
(***************************************************************************)
\* {}
EmptyDict == [k \in {} |-> None]

\* every dict with keys in K and values in V
Dicts(K, V) == UNION {[D -> V] : D \in SUBSET K}

\* an update that keeps the value a key already has
DictUpdateFirstWins(d, e) ==
    [k \in (DOMAIN d) \cup (DOMAIN e) |-> IF k \in DOMAIN d THEN d[k] ELSE e[k]]

\* d.update(e): the keys of e are set, the other keys of d are kept
DictUpdate(d, e) ==
    [k \in (DOMAIN d) \cup (DOMAIN e) |-> IF k \in DOMAIN e THEN e[k] ELSE d[k]]

\* a or b: a when it is truthy (here: not None), else b
PyOr(a, b) == IF a # None THEN a ELSE b

(***************************************************************************)
(* chunk_list(lst, chunk_size): lst[i:i+chunk_size] for i = 0, chunk_size, *)
(* 2*chunk_size, ... below len(lst).                                       *)
(***************************************************************************)
\* lst[i:j] with 0-based i, exclusive j, clipped to the list as Python does
Slice(lst, i, j) ==
    LET hi == IF j > Len(lst) THEN Len(lst) ELSE j
    IN  IF hi <= i THEN <<>> ELSE [k \in 1..(hi - i) |-> lst[i + k]]

RECURSIVE chunk_from(_, _, _)
chunk_from(lst, chunk_size, i) ==
    IF i >= Len(lst) THEN <<>>
    ELSE <<Slice(lst, i, i + chunk_size)>> \o chunk_from(lst, chunk_size, i + chunk_size)

\* a chunking that drops the short last chunk
RECURSIVE chunk_from_full_only(_, _, _)
chunk_from_full_only(lst, chunk_size, i) ==
    IF i + chunk_size > Len(lst) THEN <<>>
    ELSE <<Slice(lst, i, i + chunk_size)>>
             \o chunk_from_full_only(lst, chunk_size, i + chunk_size)

chunk_list_drops_tail(lst, chunk_size) == chunk_from_full_only(lst, chunk_size, 0)

chunk_list(lst, chunk_size) == chunk_from(lst, chunk_size, 0)

(***************************************************************************)
(* The transport: a requests.Session whose adapter retries (urllib3 Retry, *)
(* total = SESSION_TOTAL_RETRIES) an attempt that got no response or a     *)
(* status of status_forcelist.  One call of session.get followed by        *)
(* raise_for_status ends in a response, an HTTPError, a RetryError or a    *)
(* ConnectionError.                                                        *)
(***************************************************************************)
status_forcelist == {429, 500, 502, 503, 504}

\* what one call can end in
Ok == [kind |-> "ok", code |-> 200]
HTTPError(code) == [kind |-> "HTTPError", code |-> code]
RetryError == [kind |-> "RetryError", code |-> None]
ConnectionError == [kind |-> "ConnectionError", code |-> None]

\* attempts: what each attempt in turn gets, None (no response: refused,
\* reset, timed out) or an HTTP status; retries: retries still allowed
RECURSIVE send(_, _)
send(attempts, retries) ==
    LET r == Head(attempts) IN
    IF r = None
    THEN IF retries = 0 THEN ConnectionError ELSE send(Tail(attempts), retries - 1)
    ELSE IF r \in status_forcelist
    THEN IF retries = 0 THEN RetryError ELSE send(Tail(attempts), retries - 1)
    ELSE IF r >= 400 THEN HTTPError(r)
    ELSE Ok

\* session.get(...); resp.raise_for_status()
session_get(attempts) == send(attempts, SESSION_TOTAL_RETRIES)

\* the runs of attempts the server is given: n attempts that call for a
\* retry, then one that does not
AttemptRuns ==
    {[i \in 1..(SESSION_TOTAL_RETRIES + 1) |-> IF i <= n THEN bad ELSE last] :
        n \in 0..(SESSION_TOTAL_RETRIES + 1),
        bad \in {None, 429, 500},
        last \in {200, 400, 401, 403, 404}}

\* every way a call can end
CallOutcomes == {session_get(a) : a \in AttemptRuns}

(***************************************************************************)
(* Records of a page and the merge by identifier (main.py 230-240).        *)
(***************************************************************************)
\* the keys a result record carries its identifier under
KeyForms ==
    {[id |-> i, objectId |-> None, object_id |-> None] : i \in Ids}
    \cup {[id |-> None, objectId |-> i, object_id |-> None] : i \in Ids}
    \cup {[id |-> None, objectId |-> None, object_id |-> i] : i \in Ids}
    \cup {[id |-> None, objectId |-> None, object_id |-> None]}

\* result records: identifier keys and a properties dict
ResultRecords(keys, names) ==
    {[id |-> k.id, objectId |-> k.objectId, object_id |-> k.object_id, properties |-> p] :
        k \in keys, p \in Dicts(names, Values)}

\* rec.get("id") or rec.get("objectId") or rec.get("object_id")
rec_id_of(rec) == PyOr(PyOr(rec.id, rec.objectId), rec.object_id)

\* records_map is a dict id -> {'id', 'properties'}; it is kept as the
\* sequence of its values in insertion order, which is what list(values())
\* returns
HasKey(records_map, rec_id) == \E i \in DOMAIN records_map : records_map[i].id = rec_id

\* a merge that appends a row for every result record
merge_record_no_lookup(records_map, rec) ==
    LET rec_id == rec_id_of(rec) IN
    IF rec_id = None THEN records_map
    ELSE Append(records_map, [id |-> rec_id, properties |-> rec.properties])

\* the body of `for rec in results`
merge_record(records_map, rec) ==
    LET rec_id == rec_id_of(rec) IN
    IF rec_id = None THEN records_map
    ELSE LET present == IF HasKey(records_map, rec_id) THEN records_map
                        ELSE Append(records_map, [id |-> rec_id, properties |-> EmptyDict])
         IN  [i \in DOMAIN present |->
                 IF present[i].id = rec_id
                 THEN [present[i] EXCEPT !.properties = DictUpdate(@, rec.properties)]
                 ELSE present[i]]

\* a loop that breaks at a record without identifier instead of continuing
RECURSIVE merge_results_stops_at_unidentified(_, _)
merge_results_stops_at_unidentified(records_map, results) ==
    IF results = <<>> THEN records_map
    ELSE IF rec_id_of(Head(results)) = None THEN records_map
    ELSE merge_results_stops_at_unidentified(merge_record(records_map, Head(results)),
                                             Tail(results))

\* for rec in results: ...
RECURSIVE merge_results(_, _)
merge_results(records_map, results) ==
    IF results = <<>> THEN records_map
    ELSE merge_results(merge_record(records_map, Head(results)), Tail(results))

(***************************************************************************)
(* State.                                                                  *)
(***************************************************************************)
VARIABLES
    chunk_size,  \* PROPERTIES_CHUNK_SIZE, a tunable fixed for the run
    pc,          \* per object: where its future / its process_object is
    session,     \* per object: the requests session of its pipeline
    client,      \* per object: the ClickHouse client of its pipeline
    props,       \* per object: what fetch_properties returned
    fetch,       \* per object: the locals of fetch_object_data_with_chunked_properties
    records,     \* per object: what the data fetch returned
    df,          \* per object: the flattened rows (the DataFrame)
    csv,         \* per object: the CSV file, written or not, and its data rows
    db_ops,      \* per object: the commands its client completed, in order
    outcome,     \* per object: the outcome process_object printed
    raised,      \* per object: an exception left process_object (kept by the future)
    prop_resp,   \* per object: how the property catalog request ended
    api,         \* per object: what the data endpoint was asked and has answered
    main_pc,     \* where main() is
    submitted,   \* how many objects main() has submitted
    collected,   \* the futures as_completed has yielded
    unhandled    \* the objects whose future.result() raised in main()

vars == <<chunk_size, pc, session, client, props, fetch, records, df, csv, db_ops,
          outcome, raised, prop_resp, api, main_pc, submitted, collected, unhandled>>

\* the locals of the data fetch before the call and after it has returned
NoFetch ==
    [prop_chunks |-> <<>>, chunk_index |-> 0, page_count |-> 0, records_map |-> <<>>,
     params |-> [limit |-> PAGE_LIMIT, properties |-> <<>>, after |-> None]]

NoReq == [chunk |-> 0, properties |-> <<>>, after |-> None, first |-> FALSE]

\* nothing asked of the data endpoint yet
NoApi ==
    [seen_ids |-> {}, seen |-> {}, latest |-> {}, mixed |-> FALSE, req |-> NoReq, prev_after |-> None,
     resp |-> "none", resp_after |-> None, closed |-> <<>>]

NoCsv == [written |-> FALSE, rows |-> 0]

(***************************************************************************)
(* What the outside world may answer.  An environment E gives the result   *)
(* records (E.recs, at most E.maxrecs a page) and cursors (E.cursors) the  *)
(* data endpoint may return, the catalogs the properties endpoint may      *)
(* return (E.catalogs), how a call may end (E.calls), and whether a local  *)
(* or destination step may fail (E.faults).                                *)
(***************************************************************************)
SeqsUpTo(S, n) == UNION {[1..k -> S] : k \in 0..n}

\* the JSON body of a data page: results, and paging.next.after or None
Pages(E) ==
    {[results |-> r, after |-> a] :
        r \in SeqsUpTo(E.recs, E.maxrecs), a \in {None} \cup E.cursors}

NoPage == [results |-> <<>>, after |-> None]

\* a data request ends in a page or in an error
DataResponses(E) ==
    {[out |-> Ok, body |-> b] : b \in Pages(E)}
    \cup {[out |-> x, body |-> NoPage] : x \in E.calls \ {Ok}}

\* the catalog request ends in a list of names or in an error
PropResponses(E) ==
    {[out |-> Ok, names |-> n] : n \in E.catalogs}
    \cup {[out |-> x, names |-> <<>>] : x \in E.calls \ {Ok}}

(***************************************************************************)
(* fetch_object_data_with_chunked_properties (main.py 185-258).            *)
(***************************************************************************)
\* page_count += 1, counted up to MaxPages
count_page(n) == IF n < MaxPages THEN n + 1 ELSE n

\* the locals on entering iteration k of `for chunk_index, prop_chunk`
for_chunk(f, k) ==
    [f EXCEPT !.chunk_index = k,
              !.page_count = 0,
              !.params = [limit |-> PAGE_LIMIT,
                          properties |-> f.prop_chunks[k],
                          after |-> None]]

\* params built once before the loop, only its properties replaced per chunk
next_chunk_keeps_params(f) ==
    [f EXCEPT !.chunk_index = f.chunk_index + 1,
              !.page_count = 0,
              !.params.properties = f.prop_chunks[f.chunk_index + 1]]

\* from the break of one chunk to the first request of the next:
\* params.pop("after"), then the next iteration's fresh params
next_chunk(f) ==
    for_chunk([f EXCEPT !.params.after = None], f.chunk_index + 1)

\* the cursor of the response is not carried into the next request
next_page_params_no_cursor(params, after) == params

\* params["after"] = paging_next["after"]
next_page_params(params, after) == [params EXCEPT !.after = after]

\* the identifier a result record carries, under whichever key
Identifiers(rec) == {rec.id, rec.objectId, rec.object_id} \ {None}

\* the <<identifier, field, value>> returned last for each identifier and
\* field, after the result records of one more page, taken in their order
RECURSIVE LatestAfter(_, _)
LatestAfter(latest, results) ==
    IF results = <<>> THEN latest
    ELSE LET rec == Head(results)
             new == {<<i, k, rec.properties[k]>> :
                        i \in Identifiers(rec), k \in DOMAIN rec.properties}
             kept == {t \in latest : ~\E u \in new : u[1] = t[1] /\ u[2] = t[2]}
         IN  LatestAfter(kept \cup new, Tail(results))

\* what the data endpoint has been asked and has answered, after request q
\* got response r; mixed tells whether some page held a result record
\* without any identifier together with identified records
Observe(g, q, r) ==
    LET ok == r.out.kind = "ok"
        recs == {r.body.results[i] : i \in DOMAIN r.body.results}
        nameless == {rec \in recs : Identifiers(rec) = {}}
    IN  [seen_ids |-> g.seen_ids \cup UNION {Identifiers(rec) : rec \in recs},
         latest |-> IF ok THEN LatestAfter(g.latest, r.body.results) ELSE g.latest,
         mixed |-> g.mixed \/ (nameless # {} /\ nameless # recs),
         seen |-> g.seen \cup
                  UNION {{<<i, k, rec.properties[k]>> :
                             i \in Identifiers(rec), k \in DOMAIN rec.properties} :
                         rec \in recs},
         req |-> q,
         prev_after |-> IF q.first THEN None ELSE g.resp_after,
         resp |-> IF ~ok THEN (IF r.out.code \in {401, 403} THEN "denied" ELSE "failed")
                  ELSE IF r.body.after = None THEN "last" ELSE "more",
         resp_after |-> IF ok THEN r.body.after ELSE None,
         closed |-> IF ok /\ r.body.after = None
                    THEN Append(g.closed, [chunk |-> q.chunk, paged |-> ~q.first])
                    ELSE g.closed]

\* every failed data request is taken for a denial
data_error_always_returns(out) == "return"

\* lines 213-223: what the except clauses do with a failed data request
data_error(out) ==
    IF out.kind = "HTTPError"
    THEN IF out.code \in {403, 401} THEN "return" ELSE "raise"
    ELSE "raise"

\* a denial that returns what was merged so far
denied_result_keeps_merged(records_map) == records_map

\* line 217: return []
denied_result(records_map) == <<>>

\* an exception inside the try of process_object: caught at 323, printed
Caught(o) ==
    /\ pc' = [pc EXCEPT ![o] = "finally"]
    /\ outcome' = [outcome EXCEPT ![o] = "error"]

\* lines 190-197 and the first entry of the chunk loop
FetchBegin(o) ==
    /\ pc[o] = "fetch_data"
    /\ LET chunks == chunk_list(props[o], chunk_size)
           f == [NoFetch EXCEPT !.prop_chunks = chunks]
       IN  IF props[o] = <<>> \/ chunks = <<>>
           THEN /\ records' = [records EXCEPT ![o] = <<>>]
                /\ pc' = [pc EXCEPT ![o] = "check_records"]
                /\ fetch' = fetch
           ELSE /\ fetch' = [fetch EXCEPT ![o] = for_chunk(f, 1)]
                /\ pc' = [pc EXCEPT ![o] = "page"]
                /\ records' = records
    /\ UNCHANGED <<chunk_size, session, client, props, df, csv, db_ops, outcome, raised,
                   prop_resp, api, main_pc, submitted, collected, unhandled>>

\* one turn of `while True`: the request, the merge of its results, the paging
DataPage(o, E) ==
    /\ pc[o] = "page"
    /\ \E r \in DataResponses(E) :
         LET f == fetch[o]
             q == [chunk |-> f.chunk_index, properties |-> f.params.properties,
                   after |-> f.params.after,
                   first |-> api[o].req.chunk # f.chunk_index]
         IN  /\ api' = [api EXCEPT ![o] = Observe(@, q, r)]
             /\ IF r.out.kind = "ok"
                THEN /\ fetch' = [fetch EXCEPT ![o] =
                            [f EXCEPT !.records_map = merge_results(@, r.body.results),
                                      !.page_count = count_page(@),
                                      !.params = IF r.body.after # None
                                                 THEN next_page_params(@, r.body.after)
                                                 ELSE @]]
                     /\ pc' = [pc EXCEPT ![o] =
                                  IF r.body.after # None THEN "page" ELSE "chunk_end"]
                     /\ UNCHANGED <<records, outcome>>
                ELSE IF data_error(r.out) = "return"
                THEN /\ records' = [records EXCEPT ![o] = denied_result(f.records_map)]
                     /\ fetch' = [fetch EXCEPT ![o] = NoFetch]
                     /\ pc' = [pc EXCEPT ![o] = "check_records"]
                     /\ UNCHANGED outcome
                ELSE /\ fetch' = [fetch EXCEPT ![o] = NoFetch]
                     /\ Caught(o)
                     /\ UNCHANGED records
    /\ UNCHANGED <<chunk_size, session, client, props, df, csv, db_ops, raised,
                   prop_resp, main_pc, submitted, collected, unhandled>>

\* after the break: lines 252-254, then the next chunk or lines 256-258
ChunkAdvance(o) ==
    /\ pc[o] = "chunk_end"
    /\ LET f == fetch[o] IN
       IF f.chunk_index < Len(f.prop_chunks)
       THEN /\ fetch' = [fetch EXCEPT ![o] = next_chunk(f)]
            /\ pc' = [pc EXCEPT ![o] = "page"]
            /\ records' = records
       ELSE /\ records' = [records EXCEPT ![o] = f.records_map]
            /\ fetch' = [fetch EXCEPT ![o] = NoFetch]
            /\ pc' = [pc EXCEPT ![o] = "check_records"]
    /\ UNCHANGED <<chunk_size, session, client, props, df, csv, db_ops, outcome, raised,
                   prop_resp, api, main_pc, submitted, collected, unhandled>>

(***************************************************************************)
(* fetch_properties (main.py 160-182) and process_object (main.py 264-334).*)
(***************************************************************************)
\* the column name "id" of a flattened row; property names are positive
ID_COLUMN == 0

\* lines 291-305 for one record whose property values are scalars:
\* row = {"id": rec["id"]}, then row[k] = v for every property
flatten_row(rec) == DictUpdate([k \in {ID_COLUMN} |-> rec.id], rec.properties)

\* The scalars a JSON body may carry, numbered from 1: what Python type
\* resp.json() gives each (py) and what its text reads as (reads).  "1",
\* "2.5" and "abc" are strings; 1 and 2.5 are numbers.  None is JSON null.
JsonScalars ==
    << [py |-> "str", reads |-> "int"],
       [py |-> "str", reads |-> "float"],
       [py |-> "str", reads |-> "text"],
       [py |-> "int", reads |-> "int"],
       [py |-> "float", reads |-> "float"] >>

\* the cell of a row that lacks the column: pd.DataFrame fills it with NaN
NaN == -1

\* type(v).__name__ of a cell
python_type(v) ==
    IF v = None THEN "NoneType"
    ELSE IF v = NaN THEN "float"
    ELSE JsonScalars[v].py

\* line 307: the columns of pd.DataFrame(flat_rows) and the cells of one
Columns(rows) == UNION {DOMAIN rows[i] : i \in DOMAIN rows}

Cells(rows, col) ==
    [i \in DOMAIN rows |-> IF col \in DOMAIN rows[i] THEN rows[i][col] ELSE NaN]

\* the dtype pandas gives a column built from Python objects: object as soon
\* as a str is among them; else float64 when a float (NaN included) is, or
\* when ints come with None; int64 for ints alone; object for None alone
pandas_dtype(cells) ==
    LET seen == {python_type(cells[i]) : i \in DOMAIN cells} IN
    IF "str" \in seen THEN "object"
    ELSE IF "float" \in seen THEN "float64"
    ELSE IF "int" \in seen THEN (IF "NoneType" \in seen THEN "float64" ELSE "int64")
    ELSE "object"

\* lines 126-131
col_type(dtype) ==
    IF dtype = "int64" THEN "Int64"
    ELSE IF dtype = "float64" THEN "Float64"
    ELSE "String"

\* lines 124-134: the column types of the CREATE TABLE statement
table_columns(rows) ==
    [col \in Columns(rows) |-> col_type(pandas_dtype(Cells(rows, col)))]

\* what fetch_properties returns, or that it raises, given how the request ended
\* no HTTP error is treated as a skip
fetch_properties_raises_http(r) ==
    IF r.out.kind = "ok" THEN [raises |-> FALSE, names |-> r.names]
    ELSE IF r.out.kind = "HTTPError" THEN [raises |-> TRUE, names |-> <<>>]
    ELSE [raises |-> FALSE, names |-> <<>>]

fetch_properties(r) ==
    IF r.out.kind = "ok" THEN [raises |-> FALSE, names |-> r.names]
    ELSE IF r.out.kind = "HTTPError"
    THEN IF r.out.code \in {403, 401} THEN [raises |-> FALSE, names |-> <<>>]
         ELSE IF r.out.code = 400 THEN [raises |-> FALSE, names |-> <<>>]
         ELSE [raises |-> TRUE, names |-> <<>>]
    ELSE [raises |-> FALSE, names |-> <<>>]

\* an exception outside the try of process_object: it leaves the function
\* and is kept by the future
Escapes(o) ==
    /\ pc' = [pc EXCEPT ![o] = "done"]
    /\ raised' = [raised EXCEPT ![o] = TRUE]

\* a return inside the try, after printing why
Skips(o, why) ==
    /\ pc' = [pc EXCEPT ![o] = "finally"]
    /\ outcome' = [outcome EXCEPT ![o] = why]

\* line 273: session = make_session_with_retries()
MakeSession(o, E) ==
    /\ pc[o] = "make_session"
    /\ \E fails \in E.faults :
         IF fails
         THEN Escapes(o) /\ UNCHANGED session
         ELSE /\ session' = [session EXCEPT ![o] = "open"]
              /\ pc' = [pc EXCEPT ![o] = "get_client"]
              /\ UNCHANGED raised
    /\ UNCHANGED <<chunk_size, client, props, fetch, records, df, csv, db_ops, outcome,
                   prop_resp, api, main_pc, submitted, collected, unhandled>>

\* one module-level client: the first pipeline to ask creates it for all
GetClient_module_level(o, E) ==
    /\ pc[o] = "get_client"
    /\ \E fails \in E.faults :
         IF fails
         THEN Escapes(o) /\ UNCHANGED client
         ELSE /\ client' = [p \in DOMAIN client |-> "open"]
              /\ pc' = [pc EXCEPT ![o] = "fetch_properties"]
              /\ UNCHANGED raised
    /\ UNCHANGED <<chunk_size, session, props, fetch, records, df, csv, db_ops, outcome,
                   prop_resp, api, main_pc, submitted, collected, unhandled>>

\* line 274: client = get_clickhouse_client()
GetClient(o, E) ==
    /\ pc[o] = "get_client"
    /\ \E fails \in E.faults :
         IF fails
         THEN Escapes(o) /\ UNCHANGED client
         ELSE /\ client' = [client EXCEPT ![o] = "open"]
              /\ pc' = [pc EXCEPT ![o] = "fetch_properties"]
              /\ UNCHANGED raised
    /\ UNCHANGED <<chunk_size, session, props, fetch, records, df, csv, db_ops, outcome,
                   prop_resp, api, main_pc, submitted, collected, unhandled>>

\* lines 276-279: props = fetch_properties(session, obj); if not props: return
FetchProperties(o, E) ==
    /\ pc[o] = "fetch_properties"
    /\ \E r \in PropResponses(E) :
         LET got == fetch_properties(r) IN
         /\ prop_resp' = [prop_resp EXCEPT ![o] = r.out]
         /\ IF got.raises
            THEN Caught(o) /\ UNCHANGED props
            ELSE /\ props' = [props EXCEPT ![o] = got.names]
                 /\ IF got.names = <<>>
                    THEN Skips(o, "skipped_no_props")
                    ELSE /\ pc' = [pc EXCEPT ![o] = "fetch_data"]
                         /\ UNCHANGED outcome
    /\ UNCHANGED <<chunk_size, session, client, fetch, records, df, csv, db_ops, raised,
                   api, main_pc, submitted, collected, unhandled>>

\* lines 283-307: if not records: return; the flattened rows; the DataFrame
Normalize(o) ==
    /\ pc[o] = "check_records"
    /\ IF records[o] = <<>>
       THEN Skips(o, "skipped_no_records") /\ UNCHANGED df
       ELSE /\ df' = [df EXCEPT ![o] =
                        [i \in DOMAIN records[o] |-> flatten_row(records[o][i])]]
            /\ pc' = [pc EXCEPT ![o] = "to_csv"]
            /\ UNCHANGED outcome
    /\ UNCHANGED <<chunk_size, session, client, props, fetch, records, csv, db_ops, raised,
                   prop_resp, api, main_pc, submitted, collected, unhandled>>

\* a failure of to_csv that is passed over
WriteCsv_ignores_failure(o, E) ==
    /\ pc[o] = "to_csv"
    /\ \E fails \in E.faults :
         /\ csv' = IF fails THEN csv
                   ELSE [csv EXCEPT ![o] = [written |-> TRUE, rows |-> Len(df[o])]]
         /\ IF df[o] = <<>>
            THEN Skips(o, "skipped_empty")
            ELSE /\ pc' = [pc EXCEPT ![o] = "drop_table"]
                 /\ UNCHANGED outcome
    /\ UNCHANGED <<chunk_size, session, client, props, fetch, records, df, db_ops, raised,
                   prop_resp, api, main_pc, submitted, collected, unhandled>>

\* lines 308-317: makedirs, to_csv, and the return on an empty DataFrame
WriteCsv(o, E) ==
    /\ pc[o] = "to_csv"
    /\ \E fails \in E.faults :
         IF fails
         THEN Caught(o) /\ UNCHANGED csv
         ELSE /\ csv' = [csv EXCEPT ![o] = [written |-> TRUE, rows |-> Len(df[o])]]
              /\ IF df[o] = <<>>
                 THEN Skips(o, "skipped_empty")
                 ELSE /\ pc' = [pc EXCEPT ![o] = "drop_table"]
                      /\ UNCHANGED outcome
    /\ UNCHANGED <<chunk_size, session, client, props, fetch, records, df, db_ops, raised,
                   prop_resp, api, main_pc, submitted, collected, unhandled>>

\* line 122: client.command("DROP TABLE IF EXISTS ...")
DropTable(o, E) ==
    /\ pc[o] = "drop_table"
    /\ \E fails \in E.faults :
         IF fails
         THEN Caught(o) /\ UNCHANGED db_ops
         ELSE /\ db_ops' = [db_ops EXCEPT ![o] = Append(@, [op |-> "DROP", rows |-> 0])]
              /\ pc' = [pc EXCEPT ![o] = "create_table"]
              /\ UNCHANGED outcome
    /\ UNCHANGED <<chunk_size, session, client, props, fetch, records, df, csv, raised,
                   prop_resp, api, main_pc, submitted, collected, unhandled>>

\* lines 124-143: the column types and client.command("CREATE TABLE ...")
CreateTable(o, E) ==
    /\ pc[o] = "create_table"
    /\ \E fails \in E.faults :
         IF fails
         THEN Caught(o) /\ UNCHANGED db_ops
         ELSE /\ db_ops' = [db_ops EXCEPT ![o] =
                               Append(@, [op |-> "CREATE", rows |-> 0,
                                          columns |-> table_columns(df[o])])]
              /\ pc' = [pc EXCEPT ![o] = "insert"]
              /\ UNCHANGED outcome
    /\ UNCHANGED <<chunk_size, session, client, props, fetch, records, df, csv, raised,
                   prop_resp, api, main_pc, submitted, collected, unhandled>>

\* an insert that sends the first row only
Insert_first_row_only(o, E) ==
    /\ pc[o] = "insert"
    /\ \E fails \in E.faults :
         IF fails
         THEN Caught(o) /\ UNCHANGED db_ops
         ELSE /\ db_ops' = [db_ops EXCEPT ![o] = Append(@, [op |-> "INSERT", rows |-> 1])]
              /\ Skips(o, "loaded")
    /\ UNCHANGED <<chunk_size, session, client, props, fetch, records, df, csv, raised,
                   prop_resp, api, main_pc, submitted, collected, unhandled>>

\* lines 320-321: insert_into_clickhouse (146-154) and the "Loaded" line
Insert(o, E) ==
    /\ pc[o] = "insert"
    /\ \E fails \in E.faults :
         IF fails
         THEN Caught(o) /\ UNCHANGED db_ops
         ELSE /\ db_ops' = [db_ops EXCEPT ![o] =
                               Append(@, [op |-> "INSERT", rows |-> Len(df[o])])]
              /\ Skips(o, "loaded")
    /\ UNCHANGED <<chunk_size, session, client, props, fetch, records, df, csv, raised,
                   prop_resp, api, main_pc, submitted, collected, unhandled>>

\* one client and one session shared by every pipeline: the first pipeline to
\* finish closes them for all
Finally_shared_handles(o) ==
    /\ pc[o] = "finally"
    /\ client' = [p \in Objs |-> "closed"]
    /\ session' = [p \in Objs |-> "closed"]
    /\ pc' = [pc EXCEPT ![o] = "done"]
    /\ UNCHANGED <<chunk_size, props, fetch, records, df, csv, db_ops, outcome, raised,
                   prop_resp, api, main_pc, submitted, collected, unhandled>>

\* lines 325-334: client.close(), session.close(), the "Finished" line
Finally(o) ==
    /\ pc[o] = "finally"
    /\ client' = [client EXCEPT ![o] = "closed"]
    /\ session' = [session EXCEPT ![o] = "closed"]
    /\ pc' = [pc EXCEPT ![o] = "done"]
    /\ UNCHANGED <<chunk_size, props, fetch, records, df, csv, db_ops, outcome, raised,
                   prop_resp, api, main_pc, submitted, collected, unhandled>>

(***************************************************************************)
(* main (main.py 340-350) and the ThreadPoolExecutor.                      *)
(***************************************************************************)
\* the entries of OBJECTS in this run
Configured == DOMAIN pc

\* the pipelines a worker thread is executing
Running == {o \in Configured : pc[o] \notin {"pending", "queued", "done"}}

\* line 342: executor.submit(process_object, obj, endpoint), in OBJECTS order
Submit ==
    /\ main_pc = "submit"
    /\ submitted < Cardinality(Configured)
    /\ pc' = [pc EXCEPT ![submitted + 1] = "queued"]
    /\ submitted' = submitted + 1
    /\ main_pc' = IF submitted + 1 = Cardinality(Configured) THEN "as_completed"
                  ELSE "submit"
    /\ UNCHANGED <<chunk_size, session, client, props, fetch, records, df, csv, db_ops,
                   outcome, raised, prop_resp, api, collected, unhandled>>

\* an executor that starts a thread for every work item
StartTask_unbounded(o) ==
    /\ pc[o] = "queued"
    /\ \A p \in Configured : p < o => pc[p] # "queued"
    /\ pc' = [pc EXCEPT ![o] = "make_session"]
    /\ UNCHANGED <<chunk_size, session, client, props, fetch, records, df, csv, db_ops,
                   outcome, raised, prop_resp, api, main_pc, submitted, collected,
                   unhandled>>

\* a free worker takes the oldest queued work item; line 272
StartTask(o) ==
    /\ pc[o] = "queued"
    /\ \A p \in Configured : p < o => pc[p] # "queued"
    /\ Cardinality(Running) < MAX_WORKERS
    /\ pc' = [pc EXCEPT ![o] = "make_session"]
    /\ UNCHANGED <<chunk_size, session, client, props, fetch, records, df, csv, db_ops,
                   outcome, raised, prop_resp, api, main_pc, submitted, collected,
                   unhandled>>

\* future.result() outside any try: an exception kept by the future ends main()
Collect_reraises(o) ==
    /\ main_pc = "as_completed"
    /\ pc[o] = "done"
    /\ o \notin collected
    /\ collected' = collected \cup {o}
    /\ unhandled' = unhandled
    /\ main_pc' = IF raised[o] THEN "crashed" ELSE main_pc
    /\ UNCHANGED <<chunk_size, pc, session, client, props, fetch, records, df, csv,
                   db_ops, outcome, raised, prop_resp, api, submitted>>

\* lines 343-348: as_completed yields a finished future; future.result()
Collect(o) ==
    /\ main_pc = "as_completed"
    /\ pc[o] = "done"
    /\ o \notin collected
    /\ collected' = collected \cup {o}
    /\ unhandled' = IF raised[o] THEN unhandled \cup {o} ELSE unhandled
    /\ UNCHANGED <<chunk_size, pc, session, client, props, fetch, records, df, csv,
                   db_ops, outcome, raised, prop_resp, api, main_pc, submitted>>

\* the end of the with block (shutdown, wait) and line 350
Summary ==
    /\ main_pc = "as_completed"
    /\ collected = Configured
    /\ main_pc' = "done"
    /\ UNCHANGED <<chunk_size, pc, session, client, props, fetch, records, df, csv,
                   db_ops, outcome, raised, prop_resp, api, submitted, collected,
                   unhandled>>

(***************************************************************************)
(* Specifications.                                                         *)
(***************************************************************************)
\* the run of main(): every call and every step may fail; the catalog has
\* no property or one, the data endpoint has no record or record 1, in one
\* page
PoolEnv ==
    [recs |-> {[id |-> 1, objectId |-> None, object_id |-> None,
                properties |-> [k \in {1} |-> 1]]},
     maxrecs |-> 1,
     cursors |-> {},
     catalogs |-> {PropList(n) : n \in 0..1},
     calls |-> CallOutcomes,
     faults |-> BOOLEAN]

\* one data fetch: every result record, one cursor, no local step failing
FetchEnv ==
    [recs |-> ResultRecords(KeyForms, PropNames),
     maxrecs |-> MaxPageRecs,
     cursors |-> {1},
     catalogs |-> {PropList(n) : n \in 1..MaxProps},
     calls |-> CallOutcomes,
     faults |-> {FALSE}]

\* one data fetch: every cursor, one result record, no local step failing
PageEnv ==
    [recs |-> {[id |-> 1, objectId |-> None, object_id |-> None,
                properties |-> [k \in {1} |-> 1]]},
     maxrecs |-> 1,
     cursors |-> Cursors,
     catalogs |-> {PropList(n) : n \in 1..MaxProps},
     calls |-> CallOutcomes,
     faults |-> {FALSE}]

\* one whole pipeline: every identified record with one property, one
\* cursor, every call and every step may fail
PipeEnv ==
    [recs |-> {[id |-> i, objectId |-> None, object_id |-> None,
                properties |-> [k \in {1} |-> 1]] : i \in Ids},
     maxrecs |-> 1,
     cursors |-> {1},
     catalogs |-> {PropList(n) : n \in 0..MaxProps},
     calls |-> CallOutcomes,
     faults |-> BOOLEAN]

\* one data fetch that returns one identifier again and again, a record a
\* page: every subset of the fields with every value, one cursor, nothing
\* failing
RepeatEnv ==
    [recs |-> ResultRecords({k \in KeyForms : k.id = 1}, PropNames),
     maxrecs |-> 1,
     cursors |-> {1},
     catalogs |-> {PropList(n) : n \in 1..MaxProps},
     calls |-> {Ok},
     faults |-> {FALSE}]

\* one data fetch with malformed records: a record without identifier and
\* identified records, up to MaxMixed in a page, one cursor
MixedEnv ==
    [recs |-> {[id |-> i, objectId |-> None, object_id |-> None,
                properties |-> [k \in {1} |-> 1]] : i \in {None} \cup Ids},
     maxrecs |-> MaxMixed,
     cursors |-> {1},
     catalogs |-> {PropList(n) : n \in 1..MaxProps},
     calls |-> {Ok},
     faults |-> {FALSE}]

\* one pipeline with nothing failing: a catalog that may hold a property
\* named "id" (whose value is then some identifier), every JSON scalar and
\* null as the value of the other property, up to MaxRows records in a page
FlatEnv ==
    [recs |-> {[id |-> i, objectId |-> None, object_id |-> None, properties |-> p] :
                  i \in Ids,
                  p \in [{1} -> {None} \cup DOMAIN JsonScalars]
                        \cup {[k \in {ID_COLUMN, 1} |-> IF k = ID_COLUMN THEN v ELSE 1] :
                                  v \in Ids}},
     maxrecs |-> MaxRows,
     cursors |-> {},
     catalogs |-> {<<1>>, <<ID_COLUMN, 1>>},
     calls |-> {Ok},
     faults |-> {FALSE}]

\* the executor alone: every pipeline is denied its catalog
DeniedEnv ==
    [recs |-> {},
     maxrecs |-> 0,
     cursors |-> {},
     catalogs |-> {},
     calls |-> {Ok, HTTPError(403)},
     faults |-> {FALSE}]

Init ==
    /\ chunk_size \in 1..MaxChunkSize
    /\ pc = [o \in Objs |-> "pending"]
    /\ session = [o \in Objs |-> "none"]
    /\ client = [o \in Objs |-> "none"]
    /\ props = [o \in Objs |-> <<>>]
    /\ fetch = [o \in Objs |-> NoFetch]
    /\ records = [o \in Objs |-> <<>>]
    /\ df = [o \in Objs |-> <<>>]
    /\ csv = [o \in Objs |-> NoCsv]
    /\ db_ops = [o \in Objs |-> <<>>]
    /\ outcome = [o \in Objs |-> "none"]
    /\ raised = [o \in Objs |-> FALSE]
    /\ prop_resp = [o \in Objs |-> [kind |-> "none", code |-> None]]
    /\ api = [o \in Objs |-> NoApi]
    /\ main_pc = "submit"
    /\ submitted = 0
    /\ collected = {}
    /\ unhandled = {}

Next ==
    \/ Submit
    \/ Summary
    \/ \E o \in Objs :
         \/ StartTask(o)
         \/ MakeSession(o, PoolEnv)
         \/ GetClient(o, PoolEnv)
         \/ FetchProperties(o, PoolEnv)
         \/ FetchBegin(o)
         \/ DataPage(o, PoolEnv)
         \/ ChunkAdvance(o)
         \/ Normalize(o)
         \/ WriteCsv(o, PoolEnv)
         \/ DropTable(o, PoolEnv)
         \/ CreateTable(o, PoolEnv)
         \/ Insert(o, PoolEnv)
         \/ Finally(o)
         \/ Collect(o)

Spec == Init /\ [][Next]_vars

\* every object is submitted, no worker has started yet
Submitted ==
    /\ chunk_size \in 1..MaxChunkSize
    /\ pc = [o \in Objs |-> "queued"]
    /\ session = [o \in Objs |-> "none"]
    /\ client = [o \in Objs |-> "none"]
    /\ props = [o \in Objs |-> <<>>]
    /\ fetch = [o \in Objs |-> NoFetch]
    /\ records = [o \in Objs |-> <<>>]
    /\ df = [o \in Objs |-> <<>>]
    /\ csv = [o \in Objs |-> NoCsv]
    /\ db_ops = [o \in Objs |-> <<>>]
    /\ outcome = [o \in Objs |-> "none"]
    /\ raised = [o \in Objs |-> FALSE]
    /\ prop_resp = [o \in Objs |-> [kind |-> "none", code |-> None]]
    /\ api = [o \in Objs |-> NoApi]
    /\ main_pc = "as_completed"
    /\ submitted = NumObjects
    /\ collected = {}
    /\ unhandled = {}

\* the first pipeline alone, from its start to the return of its data fetch
FetchNext ==
    \/ StartTask(1)
    \/ MakeSession(1, FetchEnv)
    \/ GetClient(1, FetchEnv)
    \/ FetchProperties(1, FetchEnv)
    \/ FetchBegin(1)
    \/ DataPage(1, FetchEnv)
    \/ ChunkAdvance(1)

FetchSpec == Submitted /\ [][FetchNext]_vars

\* the same, with every cursor the data endpoint may return
PageNext ==
    \/ StartTask(1)
    \/ MakeSession(1, PageEnv)
    \/ GetClient(1, PageEnv)
    \/ FetchProperties(1, PageEnv)
    \/ FetchBegin(1)
    \/ DataPage(1, PageEnv)
    \/ ChunkAdvance(1)

PageSpec == Submitted /\ [][PageNext]_vars

\* a worker thread that can take a step takes one: the thread is never
\* suspended for good
PageFairSpec == PageSpec /\ WF_vars(PageNext)

\* chunk_list alone: the first pipeline is about to call the data fetch with
\* a catalog of 1..MaxList names, the chunk size is one of 1..MaxList
ChunkInit ==
    /\ chunk_size \in 1..MaxList
    /\ \E n \in 1..MaxList :
         /\ props = [o \in Objs |-> IF o = 1 THEN PropList(n) ELSE <<>>]
         /\ prop_resp = [o \in Objs |-> IF o = 1 THEN Ok ELSE [kind |-> "none", code |-> None]]
    /\ pc = [o \in Objs |-> IF o = 1 THEN "fetch_data" ELSE "queued"]
    /\ session = [o \in Objs |-> IF o = 1 THEN "open" ELSE "none"]
    /\ client = [o \in Objs |-> IF o = 1 THEN "open" ELSE "none"]
    /\ fetch = [o \in Objs |-> NoFetch]
    /\ records = [o \in Objs |-> <<>>]
    /\ df = [o \in Objs |-> <<>>]
    /\ csv = [o \in Objs |-> NoCsv]
    /\ db_ops = [o \in Objs |-> <<>>]
    /\ outcome = [o \in Objs |-> "none"]
    /\ raised = [o \in Objs |-> FALSE]
    /\ api = [o \in Objs |-> NoApi]
    /\ main_pc = "as_completed"
    /\ submitted = NumObjects
    /\ collected = {}
    /\ unhandled = {}

ChunkNext == FetchBegin(1)

ChunkSpec == ChunkInit /\ [][ChunkNext]_vars

\* the first pipeline alone, from its start to its end
PipeNext ==
    \/ StartTask(1)
    \/ MakeSession(1, PipeEnv)
    \/ GetClient(1, PipeEnv)
    \/ FetchProperties(1, PipeEnv)
    \/ FetchBegin(1)
    \/ DataPage(1, PipeEnv)
    \/ ChunkAdvance(1)
    \/ Normalize(1)
    \/ WriteCsv(1, PipeEnv)
    \/ DropTable(1, PipeEnv)
    \/ CreateTable(1, PipeEnv)
    \/ Insert(1, PipeEnv)
    \/ Finally(1)

PipeSpec == Submitted /\ [][PipeNext]_vars

\* the data fetch of the first pipeline when records may lack an identifier
MixedNext ==
    \/ StartTask(1)
    \/ MakeSession(1, MixedEnv)
    \/ GetClient(1, MixedEnv)
    \/ FetchProperties(1, MixedEnv)
    \/ FetchBegin(1)
    \/ DataPage(1, MixedEnv)
    \/ ChunkAdvance(1)

MixedSpec == Submitted /\ [][MixedNext]_vars

\* the data fetch of the first pipeline when fields are returned repeatedly
RepeatNext ==
    \/ StartTask(1)
    \/ MakeSession(1, RepeatEnv)
    \/ GetClient(1, RepeatEnv)
    \/ FetchProperties(1, RepeatEnv)
    \/ FetchBegin(1)
    \/ DataPage(1, RepeatEnv)
    \/ ChunkAdvance(1)

RepeatSpec == Submitted /\ [][RepeatNext]_vars

\* the first pipeline alone, with typed values and a property named "id"
FlatNext ==
    \/ StartTask(1)
    \/ MakeSession(1, FlatEnv)
    \/ GetClient(1, FlatEnv)
    \/ FetchProperties(1, FlatEnv)
    \/ FetchBegin(1)
    \/ DataPage(1, FlatEnv)
    \/ ChunkAdvance(1)
    \/ Normalize(1)
    \/ WriteCsv(1, FlatEnv)
    \/ DropTable(1, FlatEnv)
    \/ CreateTable(1, FlatEnv)
    \/ Insert(1, FlatEnv)
    \/ Finally(1)

FlatSpec == Submitted /\ [][FlatNext]_vars

\* main() with NumPoolObjects entries in OBJECTS, more than MAX_WORKERS
PoolObjs == 1..NumPoolObjects

PoolInit ==
    /\ chunk_size = MaxChunkSize
    /\ pc = [o \in PoolObjs |-> "pending"]
    /\ session = [o \in PoolObjs |-> "none"]
    /\ client = [o \in PoolObjs |-> "none"]
    /\ props = [o \in PoolObjs |-> <<>>]
    /\ fetch = [o \in PoolObjs |-> NoFetch]
    /\ records = [o \in PoolObjs |-> <<>>]
    /\ df = [o \in PoolObjs |-> <<>>]
    /\ csv = [o \in PoolObjs |-> NoCsv]
    /\ db_ops = [o \in PoolObjs |-> <<>>]
    /\ outcome = [o \in PoolObjs |-> "none"]
    /\ raised = [o \in PoolObjs |-> FALSE]
    /\ prop_resp = [o \in PoolObjs |-> [kind |-> "none", code |-> None]]
    /\ api = [o \in PoolObjs |-> NoApi]
    /\ main_pc = "submit"
    /\ submitted = 0
    /\ collected = {}
    /\ unhandled = {}

PoolNext ==
    \/ Submit
    \/ Summary
    \/ \E o \in PoolObjs :
         \/ StartTask(o)
         \/ MakeSession(o, DeniedEnv)
         \/ GetClient(o, DeniedEnv)
         \/ FetchProperties(o, DeniedEnv)
         \/ Finally(o)
         \/ Collect(o)

PoolSpec == PoolInit /\ [][PoolNext]_vars

(***************************************************************************)
(* Properties of the data fetch.                                           *)
(***************************************************************************)
\* the data fetch of o has returned after the last page of its last chunk
FetchCompleted(o) == pc[o] = "check_records" /\ api[o].resp = "last"

\* the field names the data endpoint returned for identifier i
FieldsSeen(o, i) == {t[2] : t \in {u \in api[o].seen : u[1] = i}}

\* C1: when the data fetch completes, the identifiers of the returned
\* records are exactly the identifiers seen in any page of any chunk, no
\* identifier has two records, and the fields of each record are exactly the
\* fields returned for its identifier, each with a value that was returned
\* for it.
C1_MergeIsUnion ==
    \A o \in Objs :
        FetchCompleted(o) =>
            LET rs == records[o] IN
            /\ {rs[i].id : i \in DOMAIN rs} = api[o].seen_ids
            /\ \A i, j \in DOMAIN rs : rs[i].id = rs[j].id => i = j
            /\ \A i \in DOMAIN rs :
                 /\ DOMAIN rs[i].properties = FieldsSeen(o, rs[i].id)
                 /\ \A k \in DOMAIN rs[i].properties :
                        <<rs[i].id, k, rs[i].properties[k]>> \in api[o].seen

\* a fetch of two chunks has completed with two records, one of them with
\* two fields, one field of which was returned with two different values
C1_Witness ==
    \E o \in Objs :
        /\ FetchCompleted(o)
        /\ Len(api[o].closed) = 2
        /\ Len(records[o]) = 2
        /\ \E i \in DOMAIN records[o] :
             /\ Cardinality(DOMAIN records[o][i].properties) = 2
             /\ \E k \in PropNames, v, w \in Values :
                  /\ v # w
                  /\ <<records[o][i].id, k, v>> \in api[o].seen
                  /\ <<records[o][i].id, k, w>> \in api[o].seen

\* ceil(n / c) for n >= 0, c >= 1
CeilDiv(n, c) == (n + c - 1) \div c

RECURSIVE Concat(_)
Concat(ss) == IF ss = <<>> THEN <<>> ELSE Head(ss) \o Concat(Tail(ss))

\* C6: chunk_list yields ceil(N/C) chunks of 1..C elements each, all but
\* the last of exactly C, and their concatenation is the original list.
C6_ChunksPartition ==
    \A o \in Objs :
        pc[o] = "page" =>
            LET chunks == fetch[o].prop_chunks
                N == Len(props[o])
                C == chunk_size
            IN  /\ Len(chunks) = CeilDiv(N, C)
                /\ \A i \in DOMAIN chunks : Len(chunks[i]) >= 1 /\ Len(chunks[i]) <= C
                /\ \A i \in DOMAIN chunks : i < Len(chunks) => Len(chunks[i]) = C
                /\ Concat(chunks) = props[o]

\* seven properties in chunks of three: sizes 3, 3, 1
C6_Witness ==
    \E o \in Objs :
        /\ pc[o] = "page"
        /\ Len(props[o]) = 7
        /\ chunk_size = 3
        /\ Len(fetch[o].prop_chunks) = 3
        /\ Len(fetch[o].prop_chunks[3]) = 1

\* C7: requests go chunk by chunk in partition order: a request is for the
\* chunk after those that have received a page without a cursor (or for the
\* chunk that just received it), and every request but the first of a chunk
\* carries the cursor of the response just before it.
C7_ChunkThenCursorOrder ==
    \A o \in Objs :
        LET g == api[o]
            q == g.req
        IN  q # NoReq =>
                /\ \A i \in DOMAIN g.closed : g.closed[i].chunk = i
                /\ q.chunk = Len(g.closed) + (IF g.resp = "last" THEN 0 ELSE 1)
                /\ ~q.first => (g.prev_after # None /\ q.after = g.prev_after)

\* the second chunk is on a later page, asked for with the second cursor
C7_Witness ==
    \E o \in Objs :
        /\ api[o].req.chunk = 2
        /\ ~api[o].req.first
        /\ api[o].req.after = 2
        /\ api[o].resp = "more"

\* the properties of chunk k (from 1) of the catalog of o
OwnProperties(o, k) == Slice(props[o], (k - 1) * chunk_size, k * chunk_size)

\* C8: the first request of every chunk carries the chunk's own properties
\* and no cursor.
C8_FirstPageHasNoCursor ==
    \A o \in Objs :
        LET q == api[o].req IN
        (q # NoReq /\ q.first) =>
            /\ q.after = None
            /\ q.properties = OwnProperties(o, q.chunk)

\* the first request of the second chunk, after a first chunk of several pages
C8_Witness ==
    \E o \in Objs :
        /\ api[o].req.chunk = 2
        /\ api[o].req.first
        /\ api[o].closed # <<>>
        /\ api[o].closed[1].paged

\* C3: the page loop of a chunk ends, also when the data endpoint returns a
\* cursor it has returned before.
C3_PaginationTerminates ==
    \A o \in Objs : (pc[o] = "page") ~> (pc[o] # "page")

(***************************************************************************)
(* Properties of the pipelines and of the run.                             *)
(***************************************************************************)
\* everything the pipeline of o owns
ObjState(o) ==
    <<pc[o], session[o], client[o], props[o], fetch[o], records[o], df[o], csv[o],
      db_ops[o], outcome[o], raised[o], prop_resp[o], api[o]>>

\* a step of the pipeline of o
Step(o) ==
    \/ StartTask(o)
    \/ MakeSession(o, PoolEnv)
    \/ GetClient(o, PoolEnv)
    \/ FetchProperties(o, PoolEnv)
    \/ FetchBegin(o)
    \/ DataPage(o, PoolEnv)
    \/ ChunkAdvance(o)
    \/ Normalize(o)
    \/ WriteCsv(o, PoolEnv)
    \/ DropTable(o, PoolEnv)
    \/ CreateTable(o, PoolEnv)
    \/ Insert(o, PoolEnv)
    \/ Finally(o)

\* the pipeline of o has finished, or can take a step, or waits for a
\* submission or a worker that is on its way
Proceeds(o) ==
    \/ pc[o] = "done"
    \/ ENABLED Step(o)
    \/ pc[o] = "pending" /\ ENABLED Submit
    \/ pc[o] = "queued" /\ \E p \in Objs : ENABLED Step(p)

\* a failure has occurred in the pipeline of o
Failed(o) == raised[o] \/ outcome[o] = "error"

\* C2: once a failure has occurred in the pipeline of X, every other
\* pipeline still proceeds (is submitted, gets a worker, can take its next
\* step), and no step of the pipeline of X changes anything another pipeline
\* owns.
C2_Bulkhead ==
    /\ [](\A x, y \in Objs : (x # y /\ Failed(x)) => Proceeds(y))
    /\ [][\A x, y \in Objs :
            (x # y /\ ObjState(x)' # ObjState(x)) => ObjState(y)' = ObjState(y)]_vars

\* one pipeline failed while creating its client, another has loaded its table
C2_Witness ==
    \E x, y \in Objs :
        /\ x < y
        /\ raised[x]
        /\ pc[y] = "done"
        /\ outcome[y] = "loaded"

\* C4: when a pipeline has finished, its session and its client are not
\* left open.
C4_ResourcesReleased ==
    \A o \in Objs : pc[o] = "done" => (session[o] # "open" /\ client[o] # "open")

\* C5: no exception leaves process_object, and main() gets none from a
\* future's result.
C5_NoErrorEscapes ==
    /\ \A o \in Objs : ~raised[o]
    /\ unhandled = {}

\* the catalog request of o ended in HTTP 401, 403 or 400
CatalogDenied(o) ==
    prop_resp[o].kind = "HTTPError" /\ prop_resp[o].code \in {401, 403, 400}

\* the catalog request of o failed in any other way
CatalogFailed(o) ==
    prop_resp[o].kind \notin {"none", "ok"} /\ ~CatalogDenied(o)

\* C9: after a catalog request that ended in 401, 403 or 400 the pipeline
\* has an empty property list, is reported skipped, has no error, sends no
\* data request, writes no CSV, completes no destination command, and the
\* other pipelines proceed.
C9_DeniedCatalogSkips ==
    \A o \in Objs :
        CatalogDenied(o) =>
            /\ props[o] = <<>>
            /\ outcome[o] = "skipped_no_props"
            /\ ~raised[o]
            /\ pc[o] \in {"finally", "done"}
            /\ api[o].req = NoReq
            /\ ~csv[o].written
            /\ db_ops[o] = <<>>
            /\ \A p \in Objs \ {o} : Proceeds(p)

\* a pipeline was denied its catalog (403) and has finished; another has
\* loaded its table after that
C9_Witness ==
    \E o, p \in Objs :
        /\ o < p
        /\ prop_resp[o] = HTTPError(403)
        /\ pc[o] = "done"
        /\ session[o] = "closed"
        /\ outcome[p] = "loaded"

\* C10: a catalog request that failed otherwise (no response, retries
\* exhausted, another status) does not give an empty list: the failure is
\* the pipeline's error.
C10_CatalogFailurePropagates ==
    \A o \in Objs :
        CatalogFailed(o) => outcome[o] = "error"

(***************************************************************************)
(* Failures of the data fetch.                                             *)
(***************************************************************************)
\* C11: after a page request that ended in HTTP 401 or 403 the data fetch
\* has returned, and has returned no record, whatever was merged from
\* earlier pages and chunks; no row is flattened, no CSV is written and no
\* destination command is completed.
C11_DenialReturnsNothing ==
    \A o \in Objs :
        api[o].resp = "denied" =>
            /\ pc[o] \in {"check_records", "finally", "done"}
            /\ records[o] = <<>>
            /\ df[o] = <<>>
            /\ ~csv[o].written
            /\ db_ops[o] = <<>>

\* a denial in the second chunk, after records were merged from the first;
\* the pipeline has finished
C11_Witness ==
    \E o \in Objs :
        /\ api[o].resp = "denied"
        /\ api[o].req.chunk = 2
        /\ api[o].seen_ids # {}
        /\ pc[o] = "done"

\* C12: after a page request that failed in any other way (another HTTP
\* status, no response, retries exhausted) the error has left the data
\* fetch and is the error of the pipeline: no record set is returned, no CSV
\* is written, no destination command is completed.
C12_FetchErrorAborts ==
    \A o \in Objs :
        api[o].resp = "failed" =>
            /\ pc[o] \in {"finally", "done"}
            /\ outcome[o] = "error"
            /\ records[o] = <<>>
            /\ df[o] = <<>>
            /\ ~csv[o].written
            /\ db_ops[o] = <<>>

\* a failure on a later page of the second chunk, after records were
\* merged; the pipeline has finished and closed its session
C12_Witness ==
    \E o \in Objs :
        /\ api[o].resp = "failed"
        /\ api[o].req.chunk = 2
        /\ ~api[o].req.first
        /\ api[o].seen_ids # {}
        /\ pc[o] = "done"
        /\ session[o] = "closed"

(***************************************************************************)
(* The CSV and the destination table.                                      *)
(***************************************************************************)
\* get_clickhouse_client raised in the pipeline of o: its session was
\* made, and an exception left process_object
ConnectFailed(o) == raised[o] /\ session[o] = "open"

\* C13: the CSV is written before any destination command, and a
\* destination store that is unavailable at connection does not end a
\* pipeline without its CSV.
C13_CsvDespiteStore ==
    \A o \in Objs :
        /\ db_ops[o] # <<>> => csv[o].written
        /\ ~(pc[o] = "done" /\ ConnectFailed(o) /\ ~csv[o].written)

\* the destination commands of a load, in order
LoadOrder == <<"DROP", "CREATE", "INSERT">>

\* C14: the destination commands of a pipeline are DROP, CREATE, INSERT in
\* this order, each at most once; the insert carries as many rows as there
\* are merged records and as the CSV has data rows; a pipeline has loaded
\* exactly when all three are completed.
C14_LoadOrder ==
    \A o \in Objs :
        /\ Len(db_ops[o]) <= Len(LoadOrder)
        /\ \A i \in DOMAIN db_ops[o] :
             /\ db_ops[o][i].op = LoadOrder[i]
             /\ db_ops[o][i].op = "INSERT" =>
                    /\ db_ops[o][i].rows = Len(records[o])
                    /\ db_ops[o][i].rows = csv[o].rows
        /\ outcome[o] = "loaded" <=> Len(db_ops[o]) = Len(LoadOrder)

\* a pipeline has loaded two records merged from two pages
C14_Witness ==
    \E o \in Objs :
        /\ outcome[o] = "loaded"
        /\ pc[o] = "done"
        /\ Len(records[o]) = 2
        /\ db_ops[o][3].rows = 2

\* C15: the "id" of every flattened row is the identifier of its merged
\* record, also when the record has a property named "id".
C15_RowIdIsRecordId ==
    \A o \in Objs :
        \A i \in DOMAIN df[o] : df[o][i][ID_COLUMN] = records[o][i].id

\* the type the column of these cells is to get: integer when every
\* non-null value reads as an integer, float when every one reads as a
\* number, string otherwise and when all are null
ClaimedType(cells) ==
    LET nonnull == {cells[i] : i \in DOMAIN cells} \ {None, NaN} IN
    IF nonnull = {} THEN "String"
    ELSE IF \A v \in nonnull : JsonScalars[v].reads = "int" THEN "Int64"
    ELSE IF \A v \in nonnull : JsonScalars[v].reads \in {"int", "float"} THEN "Float64"
    ELSE "String"

\* C16: every property column of a created table has the type its values
\* call for: Int64 for "1","2","3", Float64 for "1","2.5", String for
\* "1","abc" and for a column of nulls.
C16_SchemaInference ==
    \A o \in Objs :
        \A i \in DOMAIN db_ops[o] :
            db_ops[o][i].op = "CREATE" =>
                \A col \in DOMAIN db_ops[o][i].columns \ {ID_COLUMN} :
                    db_ops[o][i].columns[col] = ClaimedType(Cells(df[o], col))

(***************************************************************************)
(* The executor and the handles of the pipelines.                          *)
(***************************************************************************)
\* C17: a pipeline sends its requests on its own open session and its
\* commands on its own open client, and the session and the client of a
\* pipeline are created and closed by steps of that pipeline only.
C17_HandlesNotShared ==
    /\ [](\A o \in Objs :
            /\ pc[o] \in {"fetch_properties", "fetch_data", "page", "chunk_end"}
                  => session[o] = "open"
            /\ pc[o] \in {"drop_table", "create_table", "insert"}
                  => client[o] = "open")
    /\ [][\A o \in Objs :
            /\ (api[o]' # api[o] \/ prop_resp[o]' # prop_resp[o]) => session[o] = "open"
            /\ db_ops[o]' # db_ops[o] => client[o] = "open"
            /\ (session[o]' # session[o] \/ client[o]' # client[o])
                  => (pc[o]' # pc[o] /\ \A p \in Objs \ {o} : pc[p]' = pc[p])]_vars

\* one pipeline has completed a destination command while another is in
\* the middle of its data fetch, each on its own handles
C17_Witness ==
    \E x, y \in Objs :
        /\ x # y
        /\ pc[x] = "create_table"
        /\ db_ops[x] # <<>>
        /\ pc[y] = "chunk_end"
        /\ session[x] = "open" /\ session[y] = "open"
        /\ client[x] = "open" /\ client[y] = "open"

\* C18: never more than MAX_WORKERS pipelines are executing; a pipeline
\* starts only from the queue and never goes back to it, a finished one
\* stays finished, and at the summary every configured pipeline has run.
C18_BoundedPoolRunsEachOnce ==
    /\ [](Cardinality(Running) <= MAX_WORKERS)
    /\ [](main_pc = "done" => \A o \in Configured : pc[o] = "done")
    /\ [][\A o \in Configured :
            /\ (pc[o]' = "make_session" /\ pc[o] # "make_session") => pc[o] = "queued"
            /\ pc[o] \notin {"pending", "queued"} => pc[o]' \notin {"pending", "queued"}
            /\ pc[o] = "done" => pc[o]' = "done"]_vars

\* every worker is busy, one pipeline has finished and another waits in
\* the queue
C18_Witness ==
    /\ Cardinality(Running) = MAX_WORKERS
    /\ \E o \in Configured : pc[o] = "queued"
    /\ \E o \in Configured : pc[o] = "done"

\* the run of main() with the largest chunk size, which no catalog of
\* PoolEnv exceeds
RunInit == Init /\ chunk_size = MaxChunkSize

RunSpec == RunInit /\ [][Next]_vars

\* the threads are scheduled: main() and every worker that can take a step
\* eventually takes one
RunFairSpec ==
    /\ RunSpec
    /\ WF_vars(Submit \/ Summary \/ \E o \in Objs : Collect(o))
    /\ \A o \in Objs : WF_vars(Step(o))

\* C19: the run reaches its summary line, whatever the outcomes of the
\* pipelines, and only after every pipeline has finished and its future
\* has been collected.
C19_SummaryReached ==
    /\ <>(main_pc = "done")
    /\ [](main_pc = "done" => \A o \in Objs : pc[o] = "done" /\ o \in collected)

\* the summary after one pipeline raised out of process_object and another
\* was skipped
C19_Witness ==
    /\ main_pc = "done"
    /\ unhandled # {}
    /\ \E o \in Objs : outcome[o] = "skipped_no_records"

\* C20: a result record without identifier raises nothing and adds no
\* entry: while the fetch runs and when it has completed, the merge map has
\* one entry for every identifier returned so far, in the same page as the
\* record without identifier or in any other, and none without identifier.
C20_UnidentifiedDropped ==
    \A o \in Objs :
        (pc[o] \in {"page", "chunk_end"} \/ FetchCompleted(o)) =>
            LET m == IF FetchCompleted(o) THEN records[o] ELSE fetch[o].records_map IN
            /\ \A i \in DOMAIN m : m[i].id # None
            /\ {m[i].id : i \in DOMAIN m} = api[o].seen_ids
            /\ Len(m) = Cardinality(api[o].seen_ids)
            /\ outcome[o] # "error"
            /\ ~raised[o]

\* a page held a record without identifier together with identified ones; the
\* fetch went on to a second chunk and completed with both identifiers
C20_Witness ==
    \E o \in Objs :
        /\ api[o].mixed
        /\ FetchCompleted(o)
        /\ Len(api[o].closed) = 2
        /\ Len(records[o]) = 2

\* the <<identifier, field, value>> a merge map holds
Held(m) ==
    UNION {{<<m[i].id, k, m[i].properties[k]>> : k \in DOMAIN m[i].properties} :
           i \in DOMAIN m}

\* C21: while the fetch runs and when it has completed, the merge map holds
\* for every identifier and field the value of the response processed last
\* among those that returned the field, in chunk-then-page order: a later
\* value replaces an earlier one, and a field the later response lacks keeps
\* its value.
C21_LaterValueWins ==
    \A o \in Objs :
        (pc[o] \in {"page", "chunk_end"} \/ FetchCompleted(o)) =>
            LET m == IF FetchCompleted(o) THEN records[o] ELSE fetch[o].records_map
            IN  Held(m) = api[o].latest

\* a fetch of two chunks has completed; a field was returned with two
\* values and the record holds another field besides, so some response
\* replaced a value and some response left a field alone
C21_Witness ==
    \E o \in Objs :
        /\ FetchCompleted(o)
        /\ Len(api[o].closed) = 2
        /\ \E i \in DOMAIN records[o] :
             /\ Cardinality(DOMAIN records[o][i].properties) = 2
             /\ \E k \in DOMAIN records[o][i].properties :
                  /\ Cardinality({t \in api[o].seen :
                                     t[1] = records[o][i].id /\ t[2] = k}) = 2
                  /\ Cardinality({t \in api[o].seen :
                                     t[1] = records[o][i].id /\ t[2] # k}) = 1

\* C22: a destination command is completed only after the catalog request
\* succeeded with at least one property, every chunk of the data fetch got
\* its last page, at least one record was merged and the CSV was written;
\* a pipeline that was skipped, that raised, or that failed before its CSV
\* was written has completed no destination command.
C22_DropOnlyAfterCsv ==
    \A o \in Objs :
        /\ db_ops[o] # <<>> =>
              /\ prop_resp[o] = Ok
              /\ props[o] # <<>>
              /\ api[o].resp = "last"
              /\ Len(api[o].closed) = Len(chunk_list(props[o], chunk_size))
              /\ records[o] # <<>>
              /\ csv[o].written
              /\ csv[o].rows = Len(records[o])
        /\ (\/ outcome[o] \in {"skipped_no_props", "skipped_no_records", "skipped_empty"}
            \/ raised[o]
            \/ outcome[o] = "error" /\ ~csv[o].written)
              => db_ops[o] = <<>>

\* a pipeline fetched records, failed to write its CSV and has finished:
\* no destination command was issued
C22_Witness ==
    \E o \in Objs :
        /\ pc[o] = "done"
        /\ outcome[o] = "error"
        /\ records[o] # <<>>
        /\ ~csv[o].written
        /\ db_ops[o] = <<>>

====
